---- MODULE Spec2Model ----
(***************************************************************************)
(* Model of the recommender's OS comparator (Comparators/os_comparator.py) *)
(* and of its standard-output printer (RecommenderIO/stdout.py).           *)
(*                                                                         *)
(* Strings are TLA+ strings, so lengths and paddings are computed as the   *)
(* program computes them.  ANSI colour sequences carry no visible text and *)
(* are left out of the printed cells.  Similarities are counted in tenths  *)
(* (10 = 1.0) and risks in hundred-thousandths (100000 = 1.0).             *)
(***************************************************************************)
EXTENDS Integers, Sequences, FiniteSets, TLC

VARIABLES limit, verbose, headers, widths, reference_host, host_list, last

vars == <<limit, verbose, headers, widths, reference_host, host_list, last>>

----------------------------------------------------------------------------
(* Bounds of the model *)

MaxHosts == 2

MaxWarnings == 2

MaxPrints == 2

----------------------------------------------------------------------------
(* Generic helpers *)

Max(a, b) == IF a > b THEN a ELSE b

Min(a, b) == IF a < b THEN a ELSE b

Digits == <<"0", "1", "2", "3", "4", "5", "6", "7", "8", "9">>

Digit(d) == Digits[d + 1]

RECURSIVE Spaces(_)
Spaces(n) == IF n <= 0 THEN "" ELSE " " \o Spaces(n - 1)

(* Python str.center(item, width) with the default fill character: the     *)
(* text is returned as it is when it does not fit; the odd space goes to   *)
(* the left exactly when both the margin and the width are odd.            *)
center(item, width) ==
    IF Len(item) >= width THEN item
    ELSE LET marg == width - Len(item)
             left == (marg \div 2) + (IF marg % 2 = 1 /\ width % 2 = 1 THEN 1 ELSE 0)
         IN  Spaces(left) \o item \o Spaces(marg - left)

(* zip(items, widths): pairs up to the shorter of the two lists *)
Zip(items, ws) ==
    [i \in 1..Min(Len(items), Len(ws)) |-> [item |-> items[i], width |-> ws[i]]]

(* without repetition *)
RECURSIVE SeqsOver(_, _)
SeqsOver(S, n) ==
    IF n = 0 THEN {<<>>}
    ELSE LET shorter == SeqsOver(S, n - 1)
         IN  shorter \cup
             {Append(s, e) : s \in {t \in shorter : Len(t) = n - 1},
                             e \in S}

----------------------------------------------------------------------------
(* Platform identifiers and the shared comparator base class *)

(* A component is the list of the fields of its identifier. *)
Parseable(c) == Len(c) = 4 /\ c[1] \in {"o", "h", "a"}

RECURSIVE Join(_)
Join(c) == IF Len(c) = 0 THEN ""
           ELSE IF Len(c) = 1 THEN c[1]
           ELSE c[1] \o ":" \o Join(Tail(c))

(* str(component) *)
ComponentStr(c) == "cpe:/" \o Join(c)

FieldMatches(a, b) == a = "*" \/ b = "*" \/ a = b

VendorWeight == 4

ProductWeight == 4

VersionWeight == 2

(* CpeComparator._compare_sw_components: (partial similarity, critical) *)
compare_sw_components(ref, cand) ==
    IF ~Parseable(ref) \/ ~Parseable(cand)
    THEN [similarity |-> 0, critical |-> TRUE]
    ELSE LET critical == ~FieldMatches(ref[2], cand[2]) \/ ~FieldMatches(ref[3], cand[3])
             weighted == VendorWeight + ProductWeight
                         + (IF FieldMatches(ref[4], cand[4]) THEN VersionWeight ELSE 0)
         IN  [similarity |-> IF critical THEN 0 ELSE weighted, critical |-> critical]

(* CpeComparator._add_warning_message *)
add_warning_message(host, message, score) ==
    [host EXCEPT !.warnings = Append(@, [description |-> message, score |-> score])]

(* A variant that warns on every result but the critical one. *)
calc_partial_similarity_inverted(self_reference_host, host) ==
    LET res == compare_sw_components(self_reference_host.os_component, host.os_component)
    IN  [ret  |-> res.similarity,
         host |-> IF ~res.critical
                  THEN add_warning_message(host, ComponentStr(host.os_component),
                                           res.similarity)
                  ELSE host]

(* A variant that compares the candidate with itself. *)
calc_partial_similarity_self(self_reference_host, host) ==
    LET res == compare_sw_components(host.os_component, host.os_component)
    IN  [ret  |-> res.similarity,
         host |-> IF res.critical
                  THEN add_warning_message(host, ComponentStr(host.os_component),
                                           res.similarity)
                  ELSE host]

(* OsComparator.calc_partial_similarity: the value returned and the        *)
(* candidate host as the call leaves it.                                   *)
calc_partial_similarity(self_reference_host, host) ==
    LET res == compare_sw_components(self_reference_host.os_component, host.os_component)
    IN  [ret  |-> res.similarity,
         host |-> IF res.critical
                  THEN add_warning_message(host, ComponentStr(host.os_component),
                                           res.similarity)
                  ELSE host]

----------------------------------------------------------------------------
(* String forms used by the printer *)

ScoreStr(s) == IF s >= 10 THEN "1.0" ELSE "0." \o Digit(s)

(* str(warning) of a (description, score) entry *)
WarningStr(w) == "('" \o w.description \o "', " \o ScoreStr(w.score) \o ")"

RECURSIVE StripZeros(_)
StripZeros(ds) ==
    IF Len(ds) > 1 /\ ds[Len(ds)] = 0 THEN StripZeros(SubSeq(ds, 1, Len(ds) - 1)) ELSE ds

RECURSIVE DigitsStr(_)
DigitsStr(ds) == IF Len(ds) = 0 THEN "" ELSE Digit(ds[1]) \o DigitsStr(Tail(ds))

(* The least j with n * 2^j >= 100000, for n > 0: the float n / 100000 has *)
(* the 53-bit mantissa nearest to n * 2^(52 + j) / 100000.                 *)
RECURSIVE BinaryShift(_, _)
BinaryShift(n, j) == IF n <= 0 \/ n >= 100000 THEN j ELSE BinaryShift(2 * n, j + 1)

(* (r * 2^times) modulo 100000 *)
RECURSIVE DoubledResidue(_, _)
DoubledResidue(r, times) ==
    IF times = 0 THEN r ELSE DoubledResidue((2 * r) % 100000, times - 1)

(* round(host.risk, 4) in ten-thousandths, for the float nearest to        *)
(* risk / 100000: the float is rounded, not the decimal, so a fifth        *)
(* decimal of 5 goes down when the float lies below the decimal, up when   *)
(* it lies above, and to the even neighbour when the float is exact.       *)
RoundRisk(risk) ==
    LET q == risk \div 10
        d == risk % 10
        residue == DoubledResidue(risk % 100000, 52 + BinaryShift(risk, 0))
    IN  IF d < 5 THEN q
        ELSE IF d > 5 THEN q + 1
        ELSE IF residue = 0 THEN q + (q % 2)
        ELSE IF residue < 50000 THEN q
        ELSE q + 1

(* str(round(host.risk, 4)) for a risk in [0, 1] given in hundred-thousandths *)
RiskStr(risk) ==
    LET k == RoundRisk(risk)
        frac == k % 10000
        ds == <<frac \div 1000, (frac \div 100) % 10, (frac \div 10) % 10, frac % 10>>
    IN  Digit(k \div 10000) \o "." \o DigitsStr(StripZeros(ds))

RECURSIVE LongestOf(_)
LongestOf(strs) ==
    IF Len(strs) = 1 THEN Len(strs[1]) ELSE Max(Len(strs[1]), LongestOf(Tail(strs)))

(* len(max(strs, key=len)): max() raises ValueError on an empty list *)
LongestLen(strs) ==
    IF Len(strs) = 0 THEN [raises |-> TRUE]
    ELSE [raises |-> FALSE, len |-> LongestOf(strs)]

WarningStrs(ws) == [i \in 1..Len(ws) |-> WarningStr(ws[i])]

----------------------------------------------------------------------------
(* StdoutPrinter *)

NoLimit == <<>>

HasLimit(lim) == lim # NoLimit

HEADERS == <<"IP ADDRESS", "DOMAIN(S)", "CONTACT(S)", "RISK">>

WIDTHS == <<20, 0, 0, 10>>

(* A variant that keeps the last hosts of the list instead of the first. *)
list_slice_tail(hl, lim) ==
    IF ~HasLimit(lim) THEN hl
    ELSE SubSeq(hl, Len(hl) - Min(lim[1], Len(hl)) + 1, Len(hl))

(* host_list[:self.limit] *)
list_slice(hl, lim) ==
    IF ~HasLimit(lim) THEN hl
    ELSE IF lim[1] >= 0 THEN SubSeq(hl, 1, Min(lim[1], Len(hl)))
    ELSE SubSeq(hl, 1, Max(Len(hl) + lim[1], 0))

(* A variant that notes the limit also when it equals the number found. *)
number_of_hosts_lines_inclusive(lim, number_of_hosts, max_distance) ==
    <<[kind |-> "Found", number |-> number_of_hosts, distance |-> max_distance]>>
    \o (IF HasLimit(lim) /\ lim[1] <= number_of_hosts
        THEN <<[kind |-> "Displaying", number |-> lim[1]]>> ELSE <<>>)
    \o <<[kind |-> "blank"]>>

(* The lines print_number_of_hosts writes *)
number_of_hosts_lines(lim, number_of_hosts, max_distance) ==
    <<[kind |-> "Found", number |-> number_of_hosts, distance |-> max_distance]>>
    \o (IF HasLimit(lim) /\ lim[1] < number_of_hosts
        THEN <<[kind |-> "Displaying", number |-> lim[1]]>> ELSE <<>>)
    \o <<[kind |-> "blank"]>>

(* The loop of __calc_column_widths over the hosts from k on, entered with *)
(* the lengths found so far; it stops at the first host whose domains or   *)
(* contacts are empty, where max() raises.                                 *)
RECURSIVE LongestOver(_, _, _, _)
LongestOver(hl, vb, k, acc) ==
    IF k > Len(hl) THEN acc
    ELSE LET domain == LongestLen(hl[k].domains)
             contact == LongestLen(hl[k].contacts)
         IN  IF domain.raises \/ contact.raises
             THEN [acc EXCEPT !.raises = TRUE]
             ELSE LongestOver(hl, vb, k + 1,
                      [raises |-> FALSE,
                       len_domain |-> Max(acc.len_domain, domain.len),
                       len_contact |-> Max(acc.len_contact, contact.len),
                       len_warning |->
                           IF vb /\ Len(hl[k].warnings) > 0
                           THEN Max(acc.len_warning,
                                    LongestLen(WarningStrs(hl[k].warnings)).len)
                           ELSE acc.len_warning])

Longest(hl, vb) ==
    LongestOver(hl, vb, 1,
                [raises |-> FALSE, len_domain |-> 0, len_contact |-> 0, len_warning |-> 0])

(* StdoutPrinter.__calc_column_widths: whether it raises ValueError, and   *)
(* the width list it leaves (untouched when it raises).                    *)
calc_column_widths(ws, vb, hl) ==
    LET longest == Longest(hl, vb)
    IN  IF longest.raises THEN [raises |-> TRUE, widths |-> ws]
        ELSE [raises |-> FALSE,
              widths |-> [i \in 1..Len(ws) |->
                             IF i = 2 THEN longest.len_domain + 2
                             ELSE IF i = 3 THEN longest.len_contact + 2
                             ELSE IF i = 5 /\ vb THEN longest.len_warning + 2
                             ELSE ws[i]]]

(* The cells of the first line of a host *)
first_line(host, vb, ws) ==
    LET print_items ==
            <<host.ip, host.domains[1], host.contacts[1], RiskStr(host.risk)>>
            \o (IF vb /\ Len(host.warnings) > 0 THEN <<WarningStr(host.warnings[1])>>
                ELSE IF vb THEN <<"">>
                ELSE <<>>)
    IN  Zip(print_items, ws)

(* The cells of line i + 1 of a host, i >= 1 *)
next_line(host, vb, ws, i) ==
    <<[item |-> "", width |-> ws[1]],
      [item |-> IF i < Len(host.domains) THEN host.domains[i + 1] ELSE "", width |-> ws[2]],
      [item |-> IF i < Len(host.contacts) THEN host.contacts[i + 1] ELSE "", width |-> ws[3]],
      [item |-> "", width |-> ws[4]]>>
    \o (IF vb
        THEN <<[item |-> IF i < Len(host.warnings) THEN WarningStr(host.warnings[i + 1])
                         ELSE "",
                width |-> ws[5]]>>
        ELSE <<>>)

(* A variant that forgets that the first line is already printed. *)
print_host_in_table_extra(host, vb, ws) ==
    LET rows == IF vb
                THEN Max(Max(Len(host.domains), Len(host.warnings)), Len(host.contacts))
                ELSE Max(Len(host.domains), Len(host.contacts))
    IN  <<first_line(host, vb, ws)>> \o [i \in 1..rows |-> next_line(host, vb, ws, i)]

(* StdoutPrinter.__print_host_in_table: the lines of one host, each a list *)
(* of cells; a cell is the text and the width it is centred in.            *)
print_host_in_table(host, vb, ws) ==
    LET several == \/ Len(host.domains) > 1
                   \/ Len(host.contacts) # 0
                   \/ (Len(host.warnings) > 1 /\ vb)
        rows == IF vb
                THEN Max(Max(Len(host.domains), Len(host.warnings)), Len(host.contacts)) - 1
                ELSE Max(Len(host.domains), Len(host.contacts)) - 1
    IN  <<first_line(host, vb, ws)>>
        \o (IF several THEN [i \in 1..rows |-> next_line(host, vb, ws, i)] ELSE <<>>)

(* StdoutPrinter.__print_host_list_header *)
print_host_list_header(hs, ws) == Zip(hs, ws)

(* StdoutPrinter.__print_horizontal_separator: one run of dashes per width *)
print_horizontal_separator(ws) == ws

(* A variant that cuts the list it is given down to the displayed hosts. *)
print_host_list_result_cut(hs, ws, lim, vb, hl) ==
    LET shown == list_slice(hl, lim)
        hs1 == IF vb THEN Append(hs, "SIMILARITIES") ELSE hs
        ws1 == IF vb THEN Append(ws, 0) ELSE ws
        calc == calc_column_widths(ws1, vb, hl)
        ws2 == calc.widths
    IN  IF calc.raises
        THEN [raises    |-> TRUE,
              headers   |-> hs1,
              widths    |-> ws2,
              host_list |-> shown,
              header    |-> <<>>,
              separator |-> <<>>,
              rows      |-> <<>>]
        ELSE [raises    |-> FALSE,
              headers   |-> hs1,
              widths    |-> ws2,
              host_list |-> shown,
              header    |-> print_host_list_header(hs1, ws2),
              separator |-> print_horizontal_separator(ws2),
              rows      |-> [k \in 1..Len(shown) |->
                                print_host_in_table(shown[k], vb, ws2)]]

(* StdoutPrinter.print_host_list: the printer's lists and the caller's     *)
(* list after the call, and the table written.  The lists are extended     *)
(* before the widths are calculated, so they stay extended when that       *)
(* raises ValueError, and nothing is written then.                         *)
print_host_list_result(hs, ws, lim, vb, hl) ==
    LET shown == list_slice(hl, lim)
        hs1 == IF vb THEN Append(hs, "SIMILARITIES") ELSE hs
        ws1 == IF vb THEN Append(ws, 0) ELSE ws
        calc == calc_column_widths(ws1, vb, hl)
        ws2 == calc.widths
    IN  IF calc.raises
        THEN [raises    |-> TRUE,
              headers   |-> hs1,
              widths    |-> ws2,
              host_list |-> hl,
              header    |-> <<>>,
              separator |-> <<>>,
              rows      |-> <<>>]
        ELSE [raises    |-> FALSE,
              headers   |-> hs1,
              widths    |-> ws2,
              host_list |-> hl,
              header    |-> print_host_list_header(hs1, ws2),
              separator |-> print_horizontal_separator(ws2),
              rows      |-> [k \in 1..Len(shown) |->
                                print_host_in_table(shown[k], vb, ws2)]]

----------------------------------------------------------------------------
(* Hosts the model runs on *)

Linux51 == <<"o", "acme", "linux", "5.1">>

Linux40 == <<"o", "acme", "linux", "4.0">>

GlobexLinux51 == <<"o", "globex", "linux", "5.1">>

Windows10 == <<"o", "acme", "windows", "10">>

Garbage == <<"not-a-cpe">>

HostA == [ip |-> "10.0.0.1", domains |-> <<"a.b">>, contacts |-> <<"x@y">>,
          risk |-> 100000, warnings |-> <<>>, os_component |-> Linux40]

HostB == [ip |-> "192.168.100.200",
          domains |-> <<"host.example.com", "b.example.com">>,
          contacts |-> <<"admin@example.com">>,
          risk |-> 33333, warnings |-> <<>>, os_component |-> Windows10]

HostC == [ip |-> "2001:db8::ff00:42:8329", domains |-> <<"www.example.org">>,
          contacts |-> <<"x@y", "root@example.org", "ops@example.org">>,
          risk |-> 66667, warnings |-> <<>>, os_component |-> Garbage]

HostPool == {HostA, HostB, HostC}

ReferenceOsPool == {Linux51, Linux40, GlobexLinux51, Garbage}

Attacked(os) == [ip |-> "10.0.0.254", domains |-> <<"victim.example.com">>,
                 contacts |-> <<"soc@example.com">>,
                 risk |-> 0, warnings |-> <<>>, os_component |-> os]

DistinctIps(hl) == \A i, j \in 1..Len(hl) : i # j => hl[i].ip # hl[j].ip

HostLists == {hl \in SeqsOver(HostPool, MaxHosts) : DistinctIps(hl)}

Limits == {NoLimit} \cup {<<k>> : k \in {-1} \cup 1..MaxHosts}

Distances == {1, 2}

(* a warning of another comparator of the hierarchy *)
SoftwareWarning == [description |-> "cpe:/a:acme:httpd:2.4", score |-> 0]

RECURSIVE TotalWarnings(_)
TotalWarnings(hl) ==
    IF Len(hl) = 0 THEN 0 ELSE Len(hl[1].warnings) + TotalWarnings(Tail(hl))

----------------------------------------------------------------------------
(* State machine *)

(* A printer of any limit and verbosity, and the hosts of a run whose       *)
(* attacked host has an identifier that cannot be parsed.                  *)
Init ==
    /\ limit \in Limits
    /\ verbose \in BOOLEAN
    /\ headers = HEADERS
    /\ widths = WIDTHS
    /\ reference_host = Attacked(Garbage)
    /\ host_list \in HostLists
    /\ last = [op |-> "none"]

(* The comparators alone, for any attacked host; the printer is not used.  *)
InitOs ==
    /\ limit = NoLimit
    /\ verbose = FALSE
    /\ headers = HEADERS
    /\ widths = WIDTHS
    /\ reference_host \in {Attacked(os) : os \in ReferenceOsPool}
    /\ host_list \in HostLists
    /\ last = [op |-> "none"]

(* OsComparator.calc_partial_similarity(host) on the i-th candidate *)
CalcPartialSimilarity ==
    \E i \in 1..Len(host_list) :
        LET r == calc_partial_similarity(reference_host, host_list[i])
        IN  /\ TotalWarnings(host_list) < MaxWarnings
            /\ host_list' = [host_list EXCEPT ![i] = r.host]
            /\ last' = [op |-> "calc_partial_similarity", host |-> i, ret |-> r.ret]
            /\ UNCHANGED <<limit, verbose, headers, widths, reference_host>>

(* Another comparator of the hierarchy records a warning on a candidate *)
AddWarningMessage ==
    \E i \in 1..Len(host_list) :
        /\ TotalWarnings(host_list) < MaxWarnings
        /\ host_list' = [host_list EXCEPT ![i] =
                            add_warning_message(@, SoftwareWarning.description,
                                                SoftwareWarning.score)]
        /\ last' = [op |-> "add_warning_message"]
        /\ UNCHANGED <<limit, verbose, headers, widths, reference_host>>

(* StdoutPrinter.print_attacked_host(host) *)
PrintAttackedHost ==
    /\ last' = [op |-> "print_attacked_host", host |-> reference_host]
    /\ UNCHANGED <<limit, verbose, headers, widths, reference_host, host_list>>

(* StdoutPrinter.print_number_of_hosts(number_of_hosts, max_distance) *)
PrintNumberOfHosts ==
    \E number_of_hosts \in {Len(host_list), Len(host_list) + 1}, max_distance \in Distances :
        /\ last' = [op |-> "print_number_of_hosts",
                    number_of_hosts |-> number_of_hosts,
                    max_distance |-> max_distance,
                    lines |-> number_of_hosts_lines(limit, number_of_hosts, max_distance)]
        /\ UNCHANGED <<limit, verbose, headers, widths, reference_host, host_list>>

(* StdoutPrinter.print_host_list(host_list) *)
PrintHostList ==
    LET r == print_host_list_result(headers, widths, limit, verbose, host_list)
    IN  /\ Len(headers) - Len(HEADERS) < MaxPrints
        /\ headers' = r.headers
        /\ widths' = r.widths
        /\ host_list' = r.host_list
        /\ last' = [op |-> "print_host_list", raises |-> r.raises, header |-> r.header,
                    separator |-> r.separator, rows |-> r.rows]
        /\ UNCHANGED <<limit, verbose, reference_host>>

Next ==
    \/ CalcPartialSimilarity
    \/ AddWarningMessage
    \/ PrintAttackedHost
    \/ PrintNumberOfHosts
    \/ PrintHostList

Spec == Init /\ [][Next]_vars

NextOs ==
    \/ CalcPartialSimilarity
    \/ AddWarningMessage

SpecOs == InitOs /\ [][NextOs]_vars

----------------------------------------------------------------------------
(* Properties *)

ValidLimit == ~HasLimit(limit) \/ limit[1] > 0

CellText(c) == center(c.item, c.width)

Critical(i) ==
    compare_sw_components(reference_host.os_component, host_list[i].os_component).critical

(* C1: print_number_of_hosts reports the number of hosts it is given       *)
(* whatever the limit is, and print_host_list, for a limit that is absent  *)
(* or positive, prints the first min(limit, n) hosts of the list (all n    *)
(* without a limit) in the order given.                                    *)
C1_LimitKeepsCount ==
    /\ last.op = "print_number_of_hosts" =>
           /\ last.lines[1].kind = "Found"
           /\ last.lines[1].number = last.number_of_hosts
           /\ \A i \in 2..Len(last.lines) : last.lines[i].kind # "Found"
    /\ (last.op = "print_host_list" /\ ValidLimit) =>
           LET n == Len(host_list)
               shown == IF HasLimit(limit) THEN Min(limit[1], n) ELSE n
           IN  /\ Len(last.rows) = shown
               /\ \A k \in 1..shown : last.rows[k][1][1].item = host_list[k].ip

C1_Witness ==
    /\ last.op = "print_host_list"
    /\ HasLimit(limit) /\ limit[1] > 0 /\ limit[1] < Len(host_list)
    /\ Len(last.rows) = limit[1]

(* C2: a call of calc_partial_similarity has no side effect: it leaves the *)
(* candidate host, its warnings included, and the reference host           *)
(* unchanged.                                                              *)
C2_NoSideEffect ==
    [][last'.op = "calc_partial_similarity" =>
           /\ host_list' = host_list
           /\ reference_host' = reference_host]_vars

(* C3: each OS comparator call whose result is critical appends exactly    *)
(* one warning to the candidate, made of the string form of the            *)
(* candidate's OS component and the similarity that call returns; a call   *)
(* whose result is not critical appends none; repeated calls repeat the    *)
(* entry.                                                                  *)
C3_OneWarningPerCriticalCall ==
    [][last'.op = "calc_partial_similarity" =>
           LET i == last'.host
               entry == [description |-> ComponentStr(host_list[i].os_component),
                         score |-> last'.ret]
           IN  host_list'[i].warnings =
                   IF Critical(i) THEN Append(host_list[i].warnings, entry)
                   ELSE host_list[i].warnings]_vars

C3_Witness ==
    /\ last.op = "calc_partial_similarity"
    /\ LET ws == host_list[last.host].warnings
       IN  /\ Len(ws) = 2
           /\ ws[1] = ws[2]
           /\ ws[1].description = ComponentStr(host_list[last.host].os_component)

VendorOrProductDiffer(i) ==
    LET ref == reference_host.os_component
        cand == host_list[i].os_component
    IN  /\ Parseable(ref) /\ Parseable(cand)
        /\ \A f \in {2, 3} : ref[f] # "*" /\ cand[f] # "*"
        /\ ref[2] # cand[2] \/ ref[3] # cand[3]

C5_HostLines ==
    last.op = "print_host_list" =>
        \A k \in 1..Len(last.rows) :
            LET h == host_list[k]
                lines == last.rows[k]
                nd == Len(h.domains)
                nc == Len(h.contacts)
                nw == Len(h.warnings)
            IN  /\ Len(lines) = IF verbose THEN Max(Max(nd, nc), nw) ELSE Max(nd, nc)
                /\ \A i \in 1..Len(lines) :
                       /\ Len(lines[i]) = IF verbose THEN 5 ELSE 4
                       /\ lines[i][1].item = IF i = 1 THEN h.ip ELSE ""
                       /\ lines[i][2].item = IF i <= nd THEN h.domains[i] ELSE ""
                       /\ lines[i][3].item = IF i <= nc THEN h.contacts[i] ELSE ""
                       /\ lines[i][4].item = IF i = 1 THEN RiskStr(h.risk) ELSE ""
                       /\ verbose =>
                              lines[i][5].item =
                                  IF i <= nw THEN WarningStr(h.warnings[i]) ELSE ""

C5_Witness ==
    /\ last.op = "print_host_list"
    /\ verbose
    /\ \E k \in 1..Len(last.rows) :
           /\ Len(host_list[k].warnings) > Max(Len(host_list[k].domains),
                                               Len(host_list[k].contacts))
           /\ Len(last.rows[k]) = Len(host_list[k].warnings)

(* C6: when print_number_of_hosts is given the length of the host list and *)
(* the limit is absent or positive, it writes the "Displaying" line        *)
(* exactly when print_host_list shows fewer hosts than that number, and    *)
(* the number on that line is the number of hosts shown.                   *)
C6_TruncationNoted ==
    (/\ last.op = "print_number_of_hosts"
     /\ ValidLimit
     /\ last.number_of_hosts = Len(host_list)) =>
        LET shown == Len(list_slice(host_list, limit))
            noted == {i \in 1..Len(last.lines) : last.lines[i].kind = "Displaying"}
        IN  /\ (noted # {}) <=> (shown < last.number_of_hosts)
            /\ (noted # {}) <=> (HasLimit(limit) /\ limit[1] < last.number_of_hosts)
            /\ \A i \in noted : last.lines[i].number = shown

C6_Witness ==
    /\ last.op = "print_number_of_hosts"
    /\ ValidLimit
    /\ last.number_of_hosts = Len(host_list)
    /\ \E i \in 1..Len(last.lines) : last.lines[i].kind = "Displaying"

PrinterOps == {"print_attacked_host", "print_number_of_hosts", "print_host_list"}

(* C7: no operation of the printer changes a host or the host list.        *)
C7_PrinterLeavesHosts ==
    [][last'.op \in PrinterOps =>
           /\ host_list' = host_list
           /\ reference_host' = reference_host]_vars

C7_Witness ==
    /\ last.op = "print_host_list"
    /\ verbose
    /\ Len(last.rows) < Len(host_list)
    /\ TotalWarnings(host_list) > 0

(* C9: the header list and the width list have the same length, 4 when     *)
(* verbose is off and 5 when verbose is on and the table has been printed, *)
(* and the header line, the separators and every row of a printed table    *)
(* have the same number of columns.                                        *)
C9_ColumnCount ==
    /\ Len(headers) = Len(widths)
    /\ ~verbose => Len(headers) = 4
    /\ (verbose /\ Len(headers) # Len(HEADERS)) => Len(headers) = 5
    /\ last.op = "print_host_list" =>
           /\ Len(last.header) = Len(last.separator)
           /\ \A k \in 1..Len(last.rows) : \A i \in 1..Len(last.rows[k]) :
                  Len(last.rows[k][i]) = Len(last.separator)

(* C10: when every ip has at most 20 characters, every text of a printed   *)
(* table, header labels included, is no longer than the width of its       *)
(* column, so that each fills exactly its column; the domain, contact and  *)
(* warning widths are the longest value over the whole list plus 2.        *)
C10_TextFitsColumn ==
    (/\ last.op = "print_host_list"
     /\ \A k \in 1..Len(host_list) :
            /\ Len(host_list[k].ip) <= 20
            /\ Len(host_list[k].domains) > 0
            /\ Len(host_list[k].contacts) > 0) =>
        /\ ~last.raises
        /\ widths[2] = Longest(host_list, verbose).len_domain + 2
        /\ widths[3] = Longest(host_list, verbose).len_contact + 2
        /\ verbose => widths[5] = Longest(host_list, verbose).len_warning + 2
        /\ \A c \in 1..Len(last.header) :
               /\ Len(last.header[c].item) <= last.header[c].width
               /\ Len(CellText(last.header[c])) = last.separator[c]
        /\ \A k \in 1..Len(last.rows) : \A i \in 1..Len(last.rows[k]) :
               \A c \in 1..Len(last.rows[k][i]) :
                   /\ Len(last.rows[k][i][c].item) <= last.rows[k][i][c].width
                   /\ Len(CellText(last.rows[k][i][c])) = last.separator[c]

====
